---- MODULE Spec2Model ----
(***************************************************************************)
(* A model of the UniFi Drive API client (src/api.py): the session holder, *)
(* the authentication state captured from response headers, login(), the   *)
(* proactive refresh of ensure_authenticated(), the request executor       *)
(* _request_json() with its single 401 re-login and retry, the versioned   *)
(* endpoint resolver _request_drive_json() and the fan-out of get_all(),   *)
(* with the constructor's host normalisation, close(), the way the polling *)
(* coordinator (src/coordinator.py) reports what get_all raised, and the   *)
(* handlers of the integration that create a client: async_setup_entry     *)
(* (src/__init__.py) and the config-flow steps (src/config_flow.py).       *)
(*                                                                         *)
(* Coroutines are modelled as tasks.  One action is the code a task runs   *)
(* between two suspension points of the event loop: a task suspends only   *)
(* while an HTTP exchange is in flight, so an action starts with the       *)
(* arrival of a response (drawn from the appliance's possible answers) and *)
(* ends when the task issues its next request or finishes.                 *)
(***************************************************************************)
EXTENDS Integers, Sequences, FiniteSets, TLC

\* ------------------------------------------------------------------ bounds

\* Top-level calls the caller makes on one client in one behaviour.
MaxCalls == 3
\* Answers of the appliance within the get_all calls of one behaviour that are
\* not the nominal one (status 200, JSON body, no authentication header).
MaxFaults == 2
\* get_all calls of one behaviour.
MaxPolls == 1
\* Pieces of a host argument given to the constructor.
MaxHostLen == 6

\* ------------------------------------------------------- optional values

\* Python's None and a present value v of an Optional.
None == <<>>
Some(v) == <<v>>
Val(o) == o[1]

\* Truthiness of an Optional[str] whose string is a TLA+ string: None and the
\* empty string are falsy.
Truthy(o) == o # None /\ Val(o) # ""

\* Truthiness of an Optional[str] whose string is given as its characters.
TruthyChars(o) == o # None /\ Val(o) # <<>>

\* Python's `a or b` on Optional[str].
PyOr(a, b) == IF Truthy(a) THEN a ELSE b

\* -------------------------------------------------------------- int(text)

Digits == {"0", "1", "2", "3", "4", "5", "6", "7", "8", "9"}

DigitVal(c) ==
    CASE c = "0" -> 0 [] c = "1" -> 1 [] c = "2" -> 2 [] c = "3" -> 3
      [] c = "4" -> 4 [] c = "5" -> 5 [] c = "6" -> 6 [] c = "7" -> 7
      [] c = "8" -> 8 [] c = "9" -> 9

RECURSIVE DigitsVal(_)
DigitsVal(s) ==
    IF s = <<>> THEN 0
    ELSE 10 * DigitsVal(SubSeq(s, 1, Len(s) - 1)) + DigitVal(s[Len(s)])

AllDigits(s) == s # <<>> /\ \A i \in 1..Len(s) : s[i] \in Digits

\* int(xt) of a header value given as its characters: Some(n), or None when
\* int() raises ValueError (the caller suppresses it).
ParseInt(s) ==
    IF AllDigits(s) THEN Some(DigitsVal(s))
    ELSE IF s # <<>> /\ s[1] = "-" /\ AllDigits(Tail(s)) THEN Some(0 - DigitsVal(Tail(s)))
    ELSE None

\* ------------------------------------------------------- error messages

\* An error message is the sequence of its words; `pat in msg` is a search
\* for the words of pat next to each other.
Contains(msg, pat) ==
    \E i \in 1..(Len(msg) - Len(pat) + 1) : SubSeq(msg, i, i + Len(pat) - 1) = pat

StatusStr(s) ==
    CASE s = 200 -> "200" [] s = 401 -> "401" [] s = 403 -> "403"
      [] s = 404 -> "404" [] s = 429 -> "429" [] s = 500 -> "500"
      [] s = 304 -> "304"

RuntimeError(msg) == [type |-> "RuntimeError", msg |-> msg]

\* f"HTTP 404 - {url}"
NotFoundMsg(version, suffix) == <<"HTTP", "404", "-", "/proxy/drive/api", version, suffix>>

HTTP404 == <<"HTTP", "404">>

\* ---------------------------------------------------------------- client

\* The six resources of get_all, by the key each gets in the snapshot.
Resources == {"device", "storage", "shares", "volumes", "drives", "fan_control"}

\* The endpoint suffix of each getter.
Suffix(r) ==
    CASE r = "device" -> "systems/device-info"
      [] r = "storage" -> "storage"
      [] r = "shares" -> "shares"
      [] r = "volumes" -> "volumes"
      [] r = "drives" -> "drives"
      [] r = "fan_control" -> "systems/fan-control"

Versions == {"v2", "v1"}

\* The getters the caller awaits directly, outside get_all.
DirectGetters == {"device", "shares"}

\* The caller's coroutine and the six fetches get_all gathers.
Main == "main"
Tasks == {Main} \cup Resources

VARIABLES
    csrf,               \* self._csrf: Optional[str]
    token_expire_ms,    \* self._token_expire_ms: Optional[int]
    drive_api_versions, \* self._drive_api_versions
    session,            \* self._session: "none", "open" or "closed"
    tasks,              \* each coroutine's frame
    gather,             \* the future of asyncio.gather in get_all
    snapshot,           \* the dict returned by the last get_all, if it returned
    learned,            \* the suffixes a call found missing on v2 and working on v1
    calls,              \* top-level calls made so far
    faults,             \* non-nominal responses given so far
    open_sessions,      \* the ClientSession objects created and not closed
    reported,           \* what the coordinator's last update ended with
    appliance,          \* how the appliance answers: "faulty", "rejecting", "locked"
    host,               \* the constructor's host argument and self.host
    entry_data          \* hass.data[DOMAIN][entry.entry_id]: "none" or "stored"

vars == <<csrf, token_expire_ms, drive_api_versions, session, tasks, gather,
          snapshot, learned, calls, faults, open_sessions, reported, appliance, host,
          entry_data>>

\* The client's fields as one record, threaded through the steps of a handler.
Client ==
    [csrf |-> csrf, token_expire_ms |-> token_expire_ms,
     drive_api_versions |-> drive_api_versions, session |-> session,
     open_sessions |-> open_sessions]

\* EnsureSession creating a ClientSession on every call.
EnsureSessionAnew(c) ==
    [c EXCEPT !.session = "open", !.open_sessions = @ + 1]

\* _ensure_session: reuse the open session, else create one.
EnsureSession(c) ==
    IF c.session = "open" THEN c
    ELSE [c EXCEPT !.session = "open", !.open_sessions = @ + 1]

\* CloseSession closing whatever the client holds, open or not.
CloseSessionAlways(c) ==
    [c EXCEPT !.session = "closed", !.open_sessions = @ - 1]

\* close: close the session if there is one and it is open.
CloseSession(c) ==
    IF c.session = "open"
    THEN [c EXCEPT !.session = "closed", !.open_sessions = @ - 1]
    ELSE c

\* UpdateCsrf without the fallback to the old value.
UpdateCsrfClearing(old, resp) == PyOr(resp.x_csrf, resp.x_updated_csrf)

\* _update_auth_from_headers, the CSRF part: header or header or old value.
UpdateCsrf(old, resp) == PyOr(resp.x_csrf, PyOr(resp.x_updated_csrf, old))

\* _update_auth_from_headers, the expiry part: int(xt) when the header is
\* truthy and parses, else the old value (the ValueError is suppressed).
UpdateExpire(old, resp) ==
    IF TruthyChars(resp.x_expire) /\ ParseInt(Val(resp.x_expire)) # None
    THEN ParseInt(Val(resp.x_expire))
    ELSE old

UpdateAuthFromHeaders(c, resp) ==
    [c EXCEPT !.csrf = UpdateCsrf(c.csrf, resp),
              !.token_expire_ms = UpdateExpire(c.token_expire_ms, resp)]

\* _will_expire_within(seconds) at clock now_ms: `not self._token_expire_ms`
\* is true of None and of 0.
WillExpireWithin(expire, now_ms, seconds) ==
    IF expire = None \/ Val(expire) = 0 THEN FALSE
    ELSE (Val(expire) - now_ms) <= (seconds * 1000)

\* The margin ensure_authenticated passes, in seconds.
RefreshMargin == 300

\* ------------------------------------------------------------ constructor

\* A host argument is the sequence of its pieces: "http", "s", ":", "/" and
\* "n" (a name or an address); no piece but "http" starts with the text http.
HostPieces == {"http", "s", ":", "/", "n"}

RECURSIVE HostsOfLen(_)
HostsOfLen(n) ==
    IF n = 0 THEN {<<>>}
    ELSE {Append(h, p) : h \in HostsOfLen(n - 1), p \in HostPieces}

HostInputs == UNION {HostsOfLen(n) : n \in 0..MaxHostLen}

\* host.rstrip("/")
RECURSIVE RStripSlash(_)
RStripSlash(h) ==
    IF h # <<>> /\ h[Len(h)] = "/" THEN RStripSlash(SubSeq(h, 1, Len(h) - 1)) ELSE h

\* host.startswith("http")
StartsWithHttp(h) == h # <<>> /\ h[1] = "http"

\* Lines 14-16: self.host for the host argument input.
NormalizeHost(input) ==
    LET stripped == RStripSlash(input)
    IN  IF ~StartsWithHttp(stripped) THEN <<"http", "s", ":", "/", "/">> \o stripped
        ELSE stripped

\* The host of the client the other specifications use: "n" was given.
DefaultHost == [input |-> <<"n">>, base |-> Some(NormalizeHost(<<"n">>))]

\* ------------------------------------------------------------ coordinator

\* Lines 33-34 of the coordinator: the texts that make an error one of
\* authentication, wherever they stand in the message.
IsAuthMessage(msg) ==
    \/ Contains(msg, <<"HTTP", "401">>)
    \/ Contains(msg, <<"Unauthorized">>)
    \/ \E i \in 1..Len(msg) : msg[i] \in {"AUTH_FAILED", "AUTH_FAILED:"}

\* _async_update_data: what the update ends with, for the outcome of get_all.
\* Only a RuntimeError is caught; any other exception passes through.
UpdateOutcome(outcome) ==
    IF outcome.kind = "return" THEN "data"
    ELSE IF outcome.err.type # "RuntimeError" THEN outcome.err.type
    ELSE IF IsAuthMessage(outcome.err.msg) THEN "ConfigEntryAuthFailed"
    ELSE "UpdateFailed"

\* ------------------------------------------------------------- appliance

NoHeaders == [x_csrf |-> None, x_updated_csrf |-> None, x_expire |-> None]

\* The authentication headers a response may carry: X-Csrf-Token and
\* x-updated-csrf-token (absent, empty, or a token) and X-Token-Expire-Time as
\* the characters of its value (absent, empty, not a number, epoch ms).
HeaderSets ==
    {NoHeaders,
     [NoHeaders EXCEPT !.x_csrf = Some("A")],
     [NoHeaders EXCEPT !.x_csrf = Some(""), !.x_updated_csrf = Some("B")],
     [NoHeaders EXCEPT !.x_expire = Some(<<"s", "o", "o", "n">>)],
     [NoHeaders EXCEPT !.x_expire = Some(<<"0">>)],
     [NoHeaders EXCEPT !.x_csrf = Some("A"),
                       !.x_expire = Some(<<"3", "0", "0", "0", "0", "1">>)]}

\* The csrfToken of the warm-up's JSON body; None when the body is no JSON
\* object or has no such field.
BodyCsrfTokens == {None, Some("C")}
\* Body texts of error responses, as words.
Texts == {<<"slow", "down">>, <<"HTTP", "404">>}
\* Clock readings of int(time.time() * 1000).
Clocks == {0, 1, 2}

WithHeaders(r, h) ==
    [x_csrf |-> h.x_csrf, x_updated_csrf |-> h.x_updated_csrf, x_expire |-> h.x_expire] @@ r

\* Responses to a resource request: a success with or without a JSON content
\* type, or an error status with the text resp.text() yields.
ResourceResponses ==
    { WithHeaders(r, h) :
        r \in { [status |-> 200, json |-> j, text |-> <<>>] : j \in BOOLEAN }
              \cup { [status |-> st, json |-> FALSE, text |-> <<>>] : st \in {304, 401, 404} }
              \cup { [status |-> 500, json |-> FALSE, text |-> tx] : tx \in Texts },
        h \in HeaderSets }

\* Outcomes of the warm-up GET: a transport failure, or a response (with a
\* status the code does not look at, and a body that holds a csrfToken or none,
\* as one that is not JSON does).
WarmupResponses ==
    { WithHeaders(r, h) :
        r \in { [failed |-> FALSE, status |-> 200, body_csrf |-> b] : b \in BodyCsrfTokens },
        h \in HeaderSets }
    \cup { WithHeaders([failed |-> FALSE, status |-> 500, body_csrf |-> None], h) :
              h \in {NoHeaders, [NoHeaders EXCEPT !.x_csrf = Some("A")]} }
    \cup { WithHeaders([failed |-> TRUE, status |-> 0, body_csrf |-> None], NoHeaders) }

\* Responses to the login POST.
LoginResponses ==
    { WithHeaders(r, h) :
        r \in { [failed |-> FALSE, status |-> 200, text |-> <<>>] }
              \cup { [failed |-> FALSE, status |-> st, text |-> tx] :
                       st \in {401, 403, 429, 500}, tx \in Texts },
        h \in HeaderSets }

\* The answers the exchanges of a getter or of get_all are drawn from (a
\* getter's requests and the logins they start, get_all's proactive login).
PollHeaderSets == {NoHeaders, [NoHeaders EXCEPT !.x_csrf = Some("B")]}

PollResourceResponses ==
    { WithHeaders([status |-> 200, json |-> TRUE, text |-> <<>>], h) : h \in PollHeaderSets }
    \cup { WithHeaders([status |-> st, json |-> FALSE, text |-> <<>>], NoHeaders) :
             st \in {200, 401, 404, 500} }

PollWarmupResponses ==
    { WithHeaders([failed |-> f, status |-> IF f THEN 0 ELSE 200, body_csrf |-> None],
                  NoHeaders) : f \in BOOLEAN }

PollLoginResponses ==
    { WithHeaders([failed |-> FALSE, status |-> 200, text |-> <<>>], h) : h \in PollHeaderSets }
    \cup { WithHeaders(r, NoHeaders) :
             r \in { [failed |-> FALSE, status |-> 401, text |-> <<>>],
                     [failed |-> FALSE, status |-> 429, text |-> <<"slow", "down">>],
                     [failed |-> FALSE, status |-> 429, text |-> <<"Unauthorized">>],
                     [failed |-> FALSE, status |-> 500, text |-> <<"HTTP", "404">>] } }

\* The outcomes of the login POST of the integration's handlers: a response,
\* or a transport failure (aiohttp.ClientError: connection refused, timeout).
HandlerLoginResponses ==
    PollLoginResponses
    \cup { WithHeaders([failed |-> TRUE, status |-> 0, text |-> <<>>], NoHeaders) }

\* The answers of an appliance that answers every resource request 401: a
\* "rejecting" one accepts every login (without effect on the requests that
\* follow), a "locked" one answers every login 401 (the credentials are
\* invalid for good).
RejectingResourceResponses ==
    { WithHeaders([status |-> 401, json |-> FALSE, text |-> <<>>], NoHeaders) }
RejectingWarmupResponses ==
    { WithHeaders([failed |-> FALSE, status |-> 200, body_csrf |-> None], NoHeaders) }
RejectingLoginResponses ==
    { WithHeaders([failed |-> FALSE, status |-> 200, text |-> <<>>], NoHeaders) }
LockedLoginResponses ==
    { WithHeaders([failed |-> FALSE, status |-> 401, text |-> <<>>], NoHeaders) }

HasNoHeaders(resp) ==
    resp.x_csrf = None /\ resp.x_updated_csrf = None /\ resp.x_expire = None

\* The nominal answers: they do not count against MaxFaults.
NominalResource(resp) ==
    resp.status = 200 /\ resp.json /\ resp.text = <<>> /\ HasNoHeaders(resp)
NominalWarmup(w) == ~w.failed /\ w.status = 200 /\ w.body_csrf = None /\ HasNoHeaders(w)
NominalLogin(resp) ==
    ~resp.failed /\ resp.status = 200 /\ resp.text = <<>> /\ HasNoHeaders(resp)

\* ----------------------------------------------------------------- frames

NoErr == [type |-> "none", msg |-> <<>>]
NoOutcome == [kind |-> "none", val |-> <<>>, err |-> NoErr]
Return(val) == [kind |-> "return", val |-> val, err |-> NoErr]
Raise(err) == [kind |-> "raise", val |-> <<>>, err |-> err]

\* Values a call returns: None, the empty object {}, the decoded JSON body of
\* an endpoint, the snapshot (held in the variable snapshot).
NoneValue == <<"None">>
EmptyObject == <<"{}">>
Body(version, suffix) == <<"json", version, suffix>>
SnapshotValue == <<"snapshot">>

IdleTask ==
    [op |-> "none",          \* the top-level call the task runs
     pc |-> "idle",          \* idle, req_wait, warm_wait, post_wait, gather_wait, done
     suffix |-> "",          \* the resource suffix of the call
     versions |-> <<>>,      \* tuple(self._drive_api_versions) of the loop
     vi |-> 0,               \* the loop's position in versions
     version |-> "",         \* the version in the path of the request in flight
     retry |-> FALSE,        \* retry_on_401 of the request in flight
     ret404 |-> FALSE,       \* return_on_404 of the request in flight
     sent_csrf |-> None,     \* the X-Csrf-Token sent with the request in flight
     now |-> 0,              \* the clock ensure_authenticated read, if it read it
     call |-> 0,             \* the number of the top-level call the task serves
     seen_csrf |-> FALSE,    \* the last response handled held a usable CSRF token
     seen_expire |-> FALSE,  \* the last response handled held a usable expiry
     hdr_csrf |-> None,      \* the CSRF token of that response's headers, if usable
     hdr_expire |-> None,    \* the expiry of that response's headers, if usable
     text |-> <<>>,          \* the body text read from the last response handled
     content_json |-> FALSE, \* the Content-Type of that response held application/json
     last_error |-> NoErr,
     outcome |-> NoOutcome,
     caller |-> "",          \* the integration's handler awaiting the call: "setup", "flow_*"
     ended |-> "none",       \* how that handler ended: its result, or the exception raised
     log |-> <<>>]           \* what the call did so far

Log(tk, event) == [tk EXCEPT !.log = Append(@, event)]

\* What the headers of the response a task handled last held: a usable CSRF
\* token (a non-empty X-Csrf-Token or x-updated-csrf-token) and a usable expiry
\* (a non-empty X-Token-Expire-Time that int() accepts).
Seen(tk, resp) ==
    [tk EXCEPT !.seen_csrf = Truthy(resp.x_csrf) \/ Truthy(resp.x_updated_csrf),
               !.seen_expire = TruthyChars(resp.x_expire) /\ ParseInt(Val(resp.x_expire)) # None,
               !.hdr_csrf = IF Truthy(resp.x_csrf) THEN resp.x_csrf
                            ELSE IF Truthy(resp.x_updated_csrf) THEN resp.x_updated_csrf
                            ELSE None,
               !.hdr_expire = IF TruthyChars(resp.x_expire) THEN ParseInt(Val(resp.x_expire))
                              ELSE None]

\* A step of a handler yields the client's fields, the task's frame and whether
\* the step ends with get_all dispatching its six fetches.
Step(c, tk) == [c |-> c, tk |-> tk, spawn |-> FALSE]

Finish(c, tk, outcome) == Step(c, [tk EXCEPT !.pc = "done", !.outcome = outcome])

\* _base_headers: X-Csrf-Token only `if self._csrf`.
BaseHeadersCsrf(c) == IF Truthy(c.csrf) THEN c.csrf ELSE None

\* -------------------------------------------------------- _request_json

\* IssueRequest with the headers of the frame's previous request sent again.
IssueRequestStale(c, tk, version, retry, ret404) ==
    LET c1 == EnsureSession(c)
        flag == IF retry THEN "retry_on_401" ELSE "no_retry"
        miss == IF ret404 THEN "return_on_404" ELSE "raise_on_404"
    IN  Step(c1, Log([tk EXCEPT !.pc = "req_wait", !.version = version,
                                !.retry = retry, !.ret404 = ret404],
                     <<"request", version, flag, miss>>))

\* Lines 113-117: take the session, build the headers, send the request.
IssueRequest(c, tk, version, retry, ret404) ==
    LET c1 == EnsureSession(c)
        flag == IF retry THEN "retry_on_401" ELSE "no_retry"
        miss == IF ret404 THEN "return_on_404" ELSE "raise_on_404"
    IN  Step(c1, Log([tk EXCEPT !.pc = "req_wait", !.version = version,
                                !.retry = retry, !.ret404 = ret404,
                                !.sent_csrf = BaseHeadersCsrf(c1)],
                     <<"request", version, flag, miss>>))

\* list.remove(x): the list without the first x.
RECURSIVE RemoveFirst(_, _)
RemoveFirst(list, x) ==
    IF list = <<>> THEN <<>>
    ELSE IF Head(list) = x THEN Tail(list)
    ELSE <<Head(list)>> \o RemoveFirst(Tail(list), x)

InList(list, x) == \E i \in 1..Len(list) : list[i] = x

\* CacheVersion with the version inserted at the front and not removed first.
CacheVersionInserting(list, version) ==
    IF version # list[1] THEN <<version>> \o list ELSE list

\* Lines 161-163: move the working version to the front of the list.
CacheVersion(list, version) ==
    IF version # list[1] THEN <<version>> \o RemoveFirst(list, version) ELSE list

\* Lines 159-164, the else clause of _request_drive_json: the request made for
\* the loop's version returned.  list.remove raises ValueError when the version
\* is not in the list.
DriveOnReturn(c, tk, val) ==
    LET version == tk.versions[tk.vi]
        list == c.drive_api_versions
    IN  IF version # list[1] /\ ~InList(list, version)
        THEN Finish(c, tk, Raise([type |-> "ValueError", msg |-> <<"list.remove(x):", "x", "not", "in", "list">>]))
        ELSE Finish([c EXCEPT !.drive_api_versions = CacheVersion(list, version)],
                    tk, Return(val))

\* DriveOnRaise with an exhausted loop returning {} instead of raising.
DriveOnRaiseEmpty(c, tk, err) ==
    IF err.type # "RuntimeError" THEN Finish(c, tk, Raise(err))
    ELSE LET tk1 == [tk EXCEPT !.last_error = err]
         IN  IF Contains(err.msg, HTTP404)
             THEN IF tk.vi < Len(tk.versions)
                  THEN IssueRequest(c, [tk1 EXCEPT !.vi = @ + 1],
                                    tk.versions[tk.vi + 1], TRUE, FALSE)
                  ELSE Finish(c, tk1, Return(EmptyObject))
             ELSE Finish(c, tk1, Raise(err))

\* Lines 153-158 and 169-170, the except clause of _request_drive_json and the
\* end of its loop: only a RuntimeError is caught; one whose text holds
\* "HTTP 404" moves the loop on, and the last one is raised when the loop ends.
DriveOnRaise(c, tk, err) ==
    IF err.type # "RuntimeError" THEN Finish(c, tk, Raise(err))
    ELSE LET tk1 == [tk EXCEPT !.last_error = err]
         IN  IF Contains(err.msg, HTTP404)
             THEN IF tk.vi < Len(tk.versions)
                  THEN IssueRequest(c, [tk1 EXCEPT !.vi = @ + 1],
                                    tk.versions[tk.vi + 1], TRUE, FALSE)
                  ELSE Finish(c, tk1, Raise(tk1.last_error))
             ELSE Finish(c, tk1, Raise(err))

\* _request_json returns to its caller, or raises into it.
RequestReturn(c, tk, val) ==
    IF tk.op = "drive" THEN DriveOnReturn(c, tk, val) ELSE Finish(c, tk, Return(val))

RequestRaise(c, tk, err) ==
    IF tk.op = "drive" THEN DriveOnRaise(c, tk, err) ELSE Finish(c, tk, Raise(err))

\* Lines 127-132: the RuntimeError carrying the body text is raised inside
\* `with suppress(Exception)` and so is suppressed itself; line 132 raises the
\* one that carries the status alone, whether or not the text was read.
StatusErrorMsg(status, text) == <<"HTTP", StatusStr(status)>>

\* ------------------------------------------------------------------ login

\* Lines 68-72: take the session and send the warm-up GET.
LoginStart(c, tk) ==
    Step(EnsureSession(c), Log([tk EXCEPT !.pc = "warm_wait"], <<"login">>))

\* LoginReturn with the request re-issued with retry_on_401 still enabled.
LoginReturnRetrying(c, tk) ==
    LET tk1 == Log(tk, <<"login_returned">>)
    IN  CASE tk.op \in {"login", "ensure"} -> Finish(c, tk1, Return(NoneValue))
          [] tk.op = "get_all" -> [c |-> c, tk |-> tk1, spawn |-> TRUE]
          [] tk.op \in {"request", "drive"} -> IssueRequest(c, tk1, tk.version, TRUE, TRUE)

\* login() returns to its caller: a top-level login or ensure_authenticated
\* ends; get_all goes on to dispatch its fetches; _request_json re-issues the
\* request (line 122: retry_on_401=False, and return_on_404 left to its default).
LoginReturn(c, tk) ==
    LET tk1 == Log(tk, <<"login_returned">>)
    IN  CASE tk.op \in {"login", "ensure"} -> Finish(c, tk1, Return(NoneValue))
          [] tk.op = "get_all" -> [c |-> c, tk |-> tk1, spawn |-> TRUE]
          [] tk.op \in {"request", "drive"} -> IssueRequest(c, tk1, tk.version, FALSE, TRUE)

\* LoginRaise with get_all going on to dispatch its fetches all the same.
LoginRaiseDispatching(c, tk, err) ==
    LET tk1 == Log(tk, <<"login_raised">>)
    IN  IF tk.op \in {"request", "drive"} THEN RequestRaise(c, tk1, err)
        ELSE IF tk.op = "get_all" THEN [c |-> c, tk |-> tk1, spawn |-> TRUE]
        ELSE Finish(c, tk1, Raise(err))

\* login() raises into its caller.
LoginRaise(c, tk, err) ==
    LET tk1 == Log(tk, <<"login_raised">>)
    IN  IF tk.op \in {"request", "drive"} THEN RequestRaise(c, tk1, err)
        ELSE Finish(c, tk1, Raise(err))

\* OnWarmup with a failure of the GET raised out of login().
OnWarmupStrict(c, tk, w) ==
    IF w.failed
    THEN LoginRaise(c, Log(tk, <<"warmup", "failed">>),
                    [type |-> "ClientError", msg |-> <<"Cannot", "connect">>])
    ELSE LET c2 == UpdateAuthFromHeaders(c, w)
             c1 == [c2 EXCEPT !.csrf = PyOr(w.body_csrf, c2.csrf)]
             tk1 == Log([Seen(tk, w) EXCEPT !.seen_csrf = @ \/ Truthy(w.body_csrf)],
                        <<"warmup", "answered", StatusStr(w.status)>>)
         IN  Step(c1, Log([tk1 EXCEPT !.pc = "post_wait", !.sent_csrf = BaseHeadersCsrf(c1)],
                          <<"login_post">>))

\* Lines 71-84: the warm-up's outcome, then the login POST is sent.  A failure
\* of the GET is suppressed; a response updates the authentication state from
\* its headers and from the csrfToken of its body.
OnWarmup(c, tk, w) ==
    LET c1 == IF w.failed THEN c
              ELSE LET c2 == UpdateAuthFromHeaders(c, w)
                   IN  [c2 EXCEPT !.csrf = PyOr(w.body_csrf, c2.csrf)]
        tk1 == IF w.failed
               THEN Log([tk EXCEPT !.seen_csrf = FALSE, !.seen_expire = FALSE,
                                   !.hdr_csrf = None, !.hdr_expire = None],
                        <<"warmup", "failed">>)
               ELSE Log([Seen(tk, w) EXCEPT !.seen_csrf = @ \/ Truthy(w.body_csrf)],
                        <<"warmup", "answered", StatusStr(w.status)>>)
    IN  Step(c1, Log([tk1 EXCEPT !.pc = "post_wait", !.sent_csrf = BaseHeadersCsrf(c1)],
                     <<"login_post">>))

\* LoginErrorMsg with the status alone: no class, no body text.
LoginErrorMsgBare(status, text) == <<"HTTP", StatusStr(status)>>

\* Lines 87-92: the message of the error the login response's status raises.
LoginErrorMsg(status, text) ==
    IF status = 429 THEN <<"RATE_LIMIT:", "HTTP", "429", "-">> \o text
    ELSE IF status \in {401, 403} THEN <<"AUTH_FAILED:", "HTTP", StatusStr(status), "-">> \o text
    ELSE <<"HTTP", StatusStr(status), "-">> \o text

\* The exception of an exchange that failed in transport.
ClientError == [type |-> "ClientError", msg |-> <<"Cannot", "connect">>]

\* Lines 84-92: the outcome of the login POST.  A transport failure raises out
\* of sess.post, past every statement of the block; a response has its text
\* read, its headers captured and its status classified.
OnLoginPost(c, tk, resp) ==
    LET c1 == UpdateAuthFromHeaders(c, resp)
        tk1 == Log([Seen(tk, resp) EXCEPT !.text = resp.text],
                   <<"login_response", StatusStr(resp.status)>>)
    IN  IF resp.failed
        THEN LoginRaise(c, Log(tk, <<"login_post", "failed">>), ClientError)
        ELSE IF resp.status >= 400
        THEN LoginRaise(c1, tk1, RuntimeError(LoginErrorMsg(resp.status, resp.text)))
        ELSE LoginReturn(c1, tk1)

\* SuccessValue with the body decoded whatever the content type.
SuccessValueAlwaysBody(resp, version, suffix) == Body(version, suffix)

\* Lines 134-137: what _request_json returns for a response below 400: the
\* decoded body when the Content-Type holds "application/json", else {}.
SuccessValue(resp, version, suffix) ==
    IF resp.json THEN Body(version, suffix) ELSE EmptyObject

\* OnResponse with the headers captured only once the status has been found to
\* be no error.
OnResponseClassifyingFirst(c, tk, resp) ==
    LET c1 == IF resp.status >= 400 THEN c ELSE UpdateAuthFromHeaders(c, resp)
        read == resp.status >= 400 /\ resp.status # 404 /\ ~(resp.status = 401 /\ tk.retry)
        tk1 == Log([Seen(tk, resp) EXCEPT !.text = IF read THEN resp.text ELSE <<>>,
                                          !.content_json = resp.json],
                   <<"response", StatusStr(resp.status)>>)
    IN  IF resp.status = 401 /\ tk.retry THEN LoginStart(c1, tk1)
        ELSE IF resp.status = 404
        THEN IF tk.ret404 THEN RequestReturn(c1, tk1, EmptyObject)
             ELSE RequestRaise(c1, tk1, RuntimeError(NotFoundMsg(tk.version, tk.suffix)))
        ELSE IF resp.status >= 400
        THEN RequestRaise(c1, tk1, RuntimeError(StatusErrorMsg(resp.status, resp.text)))
        ELSE RequestReturn(c1, tk1, SuccessValue(resp, tk.version, tk.suffix))

\* Lines 117-137: the response to a resource request.  The body text is read
\* (line 130) only on the way to the error of lines 127-132.
OnResponse(c, tk, resp) ==
    LET c1 == UpdateAuthFromHeaders(c, resp)
        read == resp.status >= 400 /\ resp.status # 404 /\ ~(resp.status = 401 /\ tk.retry)
        tk1 == Log([Seen(tk, resp) EXCEPT !.text = IF read THEN resp.text ELSE <<>>,
                                          !.content_json = resp.json],
                   <<"response", StatusStr(resp.status)>>)
    IN  IF resp.status = 401 /\ tk.retry THEN LoginStart(c1, tk1)
        ELSE IF resp.status = 404
        THEN IF tk.ret404 THEN RequestReturn(c1, tk1, EmptyObject)
             ELSE RequestRaise(c1, tk1, RuntimeError(NotFoundMsg(tk.version, tk.suffix)))
        ELSE IF resp.status >= 400
        THEN RequestRaise(c1, tk1, RuntimeError(StatusErrorMsg(resp.status, resp.text)))
        ELSE RequestReturn(c1, tk1, SuccessValue(resp, tk.version, tk.suffix))

\* ---------------------------------------------------------- entry points

\* _request_drive_json up to its first request: the loop runs over a copy of
\* the preference list taken now.
StartDrive(c, suffix, call) ==
    IssueRequest(c, [IdleTask EXCEPT !.op = "drive", !.suffix = suffix, !.call = call,
                                     !.versions = c.drive_api_versions, !.vi = 1],
                 c.drive_api_versions[1], TRUE, FALSE)

\* ensure_authenticated at clock now_ms, for a top-level call ("ensure") or as
\* the first statement of get_all.  Line 61 returns before the clock is read
\* when the expiry is None or 0.
StartEnsure(c, op, now_ms, call) ==
    LET read == c.token_expire_ms # None /\ Val(c.token_expire_ms) # 0
        tk == Log([IdleTask EXCEPT !.op = op, !.now = IF read THEN now_ms ELSE 0,
                                   !.call = call],
                  <<"ensure_authenticated">>)
    IN  IF WillExpireWithin(c.token_expire_ms, now_ms, RefreshMargin)
        THEN LoginStart(c, tk)
        ELSE IF op = "get_all" THEN [c |-> c, tk |-> tk, spawn |-> TRUE]
        ELSE Finish(c, tk, Return(NoneValue))

\* ------------------------------------------------- setup and config flow

\* The fields of a client the constructor has just built (lines 21-27), in a
\* process that holds open_count sessions of earlier clients.
NewClient(open_count) ==
    [csrf |-> None, token_expire_ms |-> None, drive_api_versions |-> <<"v2", "v1">>,
     session |-> "none", open_sessions |-> open_count]

\* The close() an integration's handler awaits, as the frame logs it.
HandlerClose(c, tk) ==
    Step(CloseSession(c),
         Log(tk, <<"close", IF c.session = "open" THEN "closed" ELSE "noop">>))

\* async_setup_entry, lines 45-55 of src/__init__.py: an exception raised
\* inside the try block.  Only a RuntimeError is caught: the client is closed
\* and ConfigEntryNotReady or ConfigEntryAuthFailed raised, by the text of the
\* message; any other exception leaves the function as it is.
SetupExcept(c, tk, err) ==
    IF err.type # "RuntimeError" THEN Step(c, [tk EXCEPT !.ended = err.type])
    ELSE LET st == HandlerClose(c, tk)
             raised == IF err.msg[1] = "RATE_LIMIT:" \/ Contains(err.msg, <<"HTTP", "429">>)
                       THEN "ConfigEntryNotReady"
                       ELSE IF IsAuthMessage(err.msg) THEN "ConfigEntryAuthFailed"
                       ELSE "ConfigEntryNotReady"
         IN  [st EXCEPT !.tk.ended = raised]

\* async_setup_entry, lines 44 and 57-61: the first refresh ended with the
\* get_all of the frame tk.  The coordinator turns what get_all raised into
\* ConfigEntryAuthFailed or UpdateFailed, and the first refresh raises
\* ConfigEntryAuthFailed for the one and ConfigEntryNotReady for any other
\* failure; with the data, the entry is stored and setup returns True.
FirstRefreshEnd(c, tk) ==
    IF tk.outcome.kind = "return" THEN Step(c, [tk EXCEPT !.ended = "True"])
    ELSE SetupExcept(c, tk,
            [type |-> IF UpdateOutcome(tk.outcome) = "ConfigEntryAuthFailed"
                      THEN "ConfigEntryAuthFailed" ELSE "ConfigEntryNotReady",
             msg |-> tk.outcome.err.msg])

\* async_step_user and async_step_reauth_confirm, lines 48-64 and 121-131 of
\* src/config_flow.py: the login ended; the finally clause closes the client,
\* and the step shows the form again when the login raised any Exception.
FlowEnd(c, tk) ==
    LET st == HandlerClose(c, tk)
        result == IF tk.outcome.kind = "raise" THEN "form"
                  ELSE IF tk.caller = "flow_user" THEN "create_entry"
                  ELSE "reauth_successful"
    IN  [st EXCEPT !.tk.ended = result]

\* What the handler awaiting a call does when the step st ends that call, up to
\* its next suspension: setup goes from its login to the first refresh (get_all
\* at clock now_ms) or into its except clause, a flow step into its finally
\* clause.  A call no handler awaits just ends.
Resume(st, now_ms) ==
    IF st.tk.caller = "" \/ st.tk.pc # "done" \/ st.spawn THEN st
    ELSE IF st.tk.caller # "setup" THEN FlowEnd(st.c, st.tk)
    ELSE IF st.tk.op = "get_all" THEN FirstRefreshEnd(st.c, st.tk)
    ELSE IF st.tk.outcome.kind = "raise" THEN SetupExcept(st.c, st.tk, st.tk.outcome.err)
    ELSE LET st1 == StartEnsure(st.c, "get_all", now_ms, st.tk.call)
         IN  [st1 EXCEPT !.tk.caller = "setup"]

\* --------------------------------------------------------------- gather

NoGather == [state |-> "idle", err |-> NoErr]

\* GatherAfter with a fetch that raised counted as one that returned.
GatherAfterLenient(g, t, ts) ==
    IF g.state # "pending" \/ t \notin Resources \/ ts[t].pc # "done" THEN g
    ELSE IF \A r \in Resources : ts[r].pc = "done" THEN [state |-> "done", err |-> NoErr]
    ELSE g

\* asyncio.gather without return_exceptions: the first fetch that raises
\* settles the future with its exception (the others run on); the future is
\* done once every fetch has returned.
GatherAfter(g, t, ts) ==
    IF g.state # "pending" \/ t \notin Resources \/ ts[t].pc # "done" THEN g
    ELSE IF ts[t].outcome.kind = "raise" THEN [state |-> "failed", err |-> ts[t].outcome.err]
    ELSE IF \A r \in Resources : ts[r].pc = "done" THEN [state |-> "done", err |-> NoErr]
    ELSE g

\* Lines 195-202: the getters in the order get_all hands them to gather, which
\* is the order of the results it unpacks.
GatherOrder == <<"device", "storage", "shares", "volumes", "drives", "fan_control">>

\* SnapshotOf with the results of shares and volumes taken for each other.
SnapshotOfSwapped(results) ==
    [k \in Resources |->
        CASE k = "device" -> results[1]
          [] k = "storage" -> results[2]
          [] k = "shares" -> results[4]
          [] k = "volumes" -> results[3]
          [] k = "drives" -> results[5]
          [] k = "fan_control" -> results[6]]

\* Lines 203-210: the dict get_all builds from the unpacked results.
SnapshotOf(results) ==
    [k \in Resources |->
        CASE k = "device" -> results[1]
          [] k = "storage" -> results[2]
          [] k = "shares" -> results[3]
          [] k = "volumes" -> results[4]
          [] k = "drives" -> results[5]
          [] k = "fan_control" -> results[6]]

Suffixes == {Suffix(r) : r \in Resources}

\* Whether the finished frame tk is a _request_drive_json call that started from
\* the list [v2, v1], got 404 for v2 and then a 200 for v1.
FoundV1(tk) ==
    /\ tk.op = "drive" /\ tk.pc = "done" /\ tk.outcome.kind = "return"
    /\ tk.versions = <<"v2", "v1">> /\ tk.vi = 2
    /\ tk.log[2] = <<"response", "404">>
    /\ tk.log[Len(tk.log)] = <<"response", "200">>

\* The suffixes for which some finished call found v2 missing and v1 working.
LearnedAfter(l, ts) == l \cup {ts[x].suffix : x \in {y \in Tasks : FoundV1(ts[y])}}

\* The state after task t took a step (st is the step's value).  When the step
\* ends in get_all's dispatch, each of the six fetches runs up to its first
\* request before any response is handled.
Apply(t, step) ==
    \E st \in {step} :
    LET c1 == IF st.spawn THEN EnsureSession(st.c) ELSE st.c
        ts == IF st.spawn
              THEN [x \in Tasks |->
                      IF x = t THEN [st.tk EXCEPT !.pc = "gather_wait"]
                      ELSE StartDrive(c1, Suffix(x), st.tk.call).tk]
              ELSE [tasks EXCEPT ![t] = st.tk]
    IN  /\ csrf' = c1.csrf
        /\ token_expire_ms' = c1.token_expire_ms
        /\ drive_api_versions' = c1.drive_api_versions
        /\ session' = c1.session
        /\ tasks' = ts
        /\ gather' = IF st.spawn THEN [state |-> "pending", err |-> NoErr]
                     ELSE GatherAfter(gather, t, ts)
        /\ learned' = LearnedAfter(learned, ts)
        /\ open_sessions' = c1.open_sessions
        /\ reported' = IF t = Main /\ st.tk.op = "get_all"
                       THEN IF st.tk.pc = "done" /\ ~st.spawn
                            THEN UpdateOutcome(st.tk.outcome) ELSE "none"
                       ELSE reported
        /\ entry_data' = IF t = Main /\ st.tk.caller = "setup" /\ st.tk.ended = "True"
                         THEN "stored" ELSE entry_data
        /\ UNCHANGED <<appliance, host>>

\* Whether task t runs get_all or one of its fetches.
Polling(t) == t \in Resources \/ tasks[t].op = "get_all"

\* Whether task t runs a getter or get_all.
Fetching(t) == Polling(t) \/ tasks[t].op = "drive"

\* An answer of a faulty appliance within a get_all that is not the nominal one
\* uses up one of MaxFaults.
Answer(t, nominal) ==
    LET free == appliance # "faulty" \/ ~Polling(t) \/ nominal
    IN  /\ free \/ faults < MaxFaults
        /\ faults' = IF free THEN faults ELSE faults + 1

\* Whether a handler of the integration awaits the call task t runs.
Handled(t) == tasks[t].caller # ""

\* The answers task t's exchange in flight can get.
WarmupAnswers(t) ==
    IF appliance # "faulty" THEN RejectingWarmupResponses
    ELSE IF Fetching(t) \/ Handled(t) THEN PollWarmupResponses ELSE WarmupResponses
LoginAnswers(t) ==
    IF appliance = "rejecting" THEN RejectingLoginResponses
    ELSE IF appliance = "locked" THEN LockedLoginResponses
    ELSE IF Handled(t) /\ ~Fetching(t) THEN HandlerLoginResponses
    ELSE IF Fetching(t) THEN PollLoginResponses ELSE LoginResponses

\* The clock readings a step of task t may need: those of the get_all that
\* setup starts when its login returns.
ResumeClocks(t) ==
    IF tasks[t].caller = "setup" /\ tasks[t].op = "login" THEN Clocks ELSE {0}
ResourceAnswers(t) ==
    IF appliance # "faulty" THEN RejectingResourceResponses
    ELSE IF Fetching(t) THEN PollResourceResponses ELSE ResourceResponses

\* ----------------------------------------------------------------- actions

CanCall ==
    /\ tasks[Main].pc \in {"idle", "done"}
    /\ calls < MaxCalls
    /\ calls' = calls + 1
    /\ UNCHANGED faults

\* The caller awaits client.login().
CallLogin ==
    /\ CanCall
    /\ Apply(Main, LoginStart(Client, [IdleTask EXCEPT !.op = "login", !.call = calls + 1]))
    /\ UNCHANGED snapshot

\* The caller awaits client.ensure_authenticated().
CallEnsureAuthenticated ==
    /\ CanCall
    /\ \E now_ms \in Clocks : Apply(Main, StartEnsure(Client, "ensure", now_ms, calls + 1))
    /\ UNCHANGED snapshot

\* The caller awaits client._request_json("GET", path, ...).
CallRequestJson ==
    /\ CanCall
    /\ \E version \in Versions, retry \in BOOLEAN, ret404 \in BOOLEAN :
          Apply(Main, IssueRequest(Client,
                        [IdleTask EXCEPT !.op = "request", !.suffix = Suffix("storage"),
                                         !.call = calls + 1],
                        version, retry, ret404))
    /\ UNCHANGED snapshot

\* The caller awaits one of the six getters.
CallGetter ==
    /\ CanCall
    /\ \E r \in DirectGetters : Apply(Main, StartDrive(Client, Suffix(r), calls + 1))
    /\ UNCHANGED snapshot

\* The caller awaits client.close().  A close that finds nothing to close leaves
\* the client as it is, so these calls are not counted against MaxCalls.
CallClose ==
    /\ tasks[Main].pc \in {"idle", "done"}
    /\ LET tk == Log([IdleTask EXCEPT !.op = "close", !.call = calls],
                     <<"close", IF session = "open" THEN "closed" ELSE "noop">>)
       IN  Apply(Main, Finish(CloseSession(Client), tk, Return(NoneValue)))
    /\ UNCHANGED <<snapshot, calls, faults>>

\* The caller awaits client.get_all(): ensure_authenticated, then the dispatch.
CallGetAll ==
    /\ tasks[Main].pc \in {"idle", "done"}
    /\ calls < MaxPolls
    /\ calls' = calls + 1
    /\ UNCHANGED faults
    /\ \A r \in Resources : tasks[r].pc \in {"idle", "done"}
    /\ \E now_ms \in Clocks : Apply(Main, StartEnsure(Client, "get_all", now_ms, calls + 1))
    /\ snapshot' = None

\* The warm-up GET of a login ends.
RecvWarmup(t) ==
    /\ tasks[t].pc = "warm_wait"
    /\ \E w \in WarmupAnswers(t) :
          /\ Answer(t, NominalWarmup(w))
          /\ Apply(t, Resume(OnWarmup(Client, tasks[t], w), 0))
    /\ UNCHANGED <<snapshot, calls>>

\* The response to a login POST arrives.
RecvLoginPost(t) ==
    /\ tasks[t].pc = "post_wait"
    /\ \E resp \in LoginAnswers(t), now_ms \in ResumeClocks(t) :
          /\ Answer(t, NominalLogin(resp))
          /\ Apply(t, Resume(OnLoginPost(Client, tasks[t], resp), now_ms))
    /\ UNCHANGED <<snapshot, calls>>

\* The response to a resource request arrives.
RecvResponse(t) ==
    /\ tasks[t].pc = "req_wait"
    /\ \E resp \in ResourceAnswers(t) :
          /\ Answer(t, NominalResource(resp))
          /\ Apply(t, Resume(OnResponse(Client, tasks[t], resp), 0))
    /\ UNCHANGED <<snapshot, calls>>

\* Lines 195-210: get_all resumes once the gather future is settled: it raises
\* the future's exception, or returns the dict of the six results; the
\* coordinator reports that, and a setup that awaited the first refresh ends.
GetAllResume ==
    /\ tasks[Main].pc = "gather_wait"
    /\ gather.state \in {"done", "failed"}
    /\ LET outcome == IF gather.state = "failed" THEN Raise(gather.err)
                      ELSE Return(SnapshotValue)
           st == Resume(Finish(Client, tasks[Main], outcome), 0)
       IN  /\ tasks' = [tasks EXCEPT ![Main] = st.tk]
           /\ session' = st.c.session
           /\ open_sessions' = st.c.open_sessions
           /\ entry_data' = IF st.tk.ended = "True" THEN "stored" ELSE entry_data
           /\ reported' = UpdateOutcome(outcome)
    /\ snapshot' = IF gather.state = "failed" THEN None
                   ELSE Some(SnapshotOf([i \in 1..Len(GatherOrder) |->
                                            tasks[GatherOrder[i]].outcome.val]))
    /\ gather' = NoGather
    /\ UNCHANGED <<csrf, token_expire_ms, drive_api_versions, learned, calls, faults,
                   appliance, host>>

Init ==
    /\ csrf = None
    /\ token_expire_ms = None
    /\ drive_api_versions = <<"v2", "v1">>
    /\ session = "none"
    /\ tasks = [t \in Tasks |-> IdleTask]
    /\ gather = NoGather
    /\ snapshot = None
    /\ learned = {}
    /\ calls = 0
    /\ faults = 0
    /\ open_sessions = 0
    /\ reported = "none"
    /\ appliance = "faulty"
    /\ host = DefaultHost
    /\ entry_data = "none"

\* The caller uses the client's methods one after the other.
Next ==
    \/ CallLogin
    \/ CallEnsureAuthenticated
    \/ CallRequestJson
    \/ CallGetter
    \/ CallClose
    \/ RecvWarmup(Main)
    \/ RecvLoginPost(Main)
    \/ RecvResponse(Main)

Spec == Init /\ [][Next]_vars

\* The state of a client at rest, for what it holds of the authentication and
\* for its session.
AtRest(auth, sess) ==
    /\ csrf = auth[1] /\ token_expire_ms = auth[2]
    /\ drive_api_versions = <<"v2", "v1">>
    /\ session = sess
    /\ open_sessions = IF sess = "open" THEN 1 ELSE 0
    /\ tasks = [t \in Tasks |-> IdleTask]
    /\ gather = NoGather
    /\ snapshot = None
    /\ learned = {}
    /\ calls = 0
    /\ faults = 0
    /\ reported = "none"
    /\ host = DefaultHost
    /\ entry_data = "none"

\* The integration's polling: the client serves get_all calls, new, after the
\* login of its setup, or after a close.
InitPoll ==
    /\ appliance = "faulty"
    /\ \E start \in {<<None, None, "none">>, <<None, None, "open">>,
                      <<Some("A"), Some(300001), "open">>,
                      <<Some("A"), Some(300001), "closed">>} :
          AtRest(<<start[1], start[2]>>, start[3])

NextPoll ==
    \/ CallGetAll
    \/ \E t \in Tasks : RecvWarmup(t)
    \/ \E t \in Tasks : RecvLoginPost(t)
    \/ \E t \in Tasks : RecvResponse(t)
    \/ GetAllResume

SpecPoll == InitPoll /\ [][NextPoll]_vars

\* The polling against an appliance that rejects the session's token, every
\* exchange in flight completing in the end.  The client knows no expiry, so
\* every login is one a 401 started.
InitReject ==
    /\ appliance \in {"rejecting", "locked"}
    /\ AtRest(<<None, None>>, "open")

Completion ==
    \/ \E t \in Tasks : RecvWarmup(t)
    \/ \E t \in Tasks : RecvLoginPost(t)
    \/ \E t \in Tasks : RecvResponse(t)
    \/ GetAllResume

SpecReject == InitReject /\ [][NextPoll]_vars /\ WF_vars(Completion)

\* The constructor, for each host argument.
InitCtor ==
    /\ Init!1 /\ Init!2 /\ Init!3 /\ Init!4 /\ Init!5 /\ Init!6 /\ Init!7 /\ Init!8
    /\ Init!9 /\ Init!10 /\ Init!11 /\ Init!12 /\ Init!13 /\ Init!15
    /\ \E input \in HostInputs : host = [input |-> input, base |-> None]

\* Lines 14-16: __init__ sets self.host.
Construct ==
    /\ host.base = None
    /\ host' = [host EXCEPT !.base = Some(NormalizeHost(host.input))]
    /\ UNCHANGED <<csrf, token_expire_ms, drive_api_versions, session, tasks, gather,
                   snapshot, learned, calls, faults, open_sessions, reported, appliance,
                   entry_data>>

NextCtor == Construct

SpecCtor == InitCtor /\ [][NextCtor]_vars

\* async_setup_entry, lines 39-42 of src/__init__.py: a client is built and
\* its login awaited.  An entry is set up when it is not already.
CallSetupEntry ==
    /\ \A t \in Tasks : tasks[t].pc \in {"idle", "done"}
    /\ entry_data = "none"
    /\ calls < MaxPolls
    /\ calls' = calls + 1
    /\ Apply(Main, LoginStart(NewClient(open_sessions),
                              [IdleTask EXCEPT !.op = "login", !.caller = "setup",
                                               !.call = calls + 1]))
    /\ UNCHANGED <<snapshot, faults>>

\* async_step_user and async_step_reauth_confirm with the user's input, lines
\* 42-49 and 115-122 of src/config_flow.py: a client is built and its login
\* awaited.
CallFlowStep ==
    /\ \A t \in Tasks : tasks[t].pc \in {"idle", "done"}
    /\ calls < MaxCalls
    /\ calls' = calls + 1
    /\ \E step \in {"flow_user", "flow_reauth"} :
          Apply(Main, LoginStart(NewClient(open_sessions),
                                 [IdleTask EXCEPT !.op = "login", !.caller = step,
                                                  !.call = calls + 1]))
    /\ UNCHANGED <<snapshot, faults>>

\* The integration sets an entry up and runs config-flow steps, each with a
\* client of its own.
NextSetup ==
    \/ CallSetupEntry
    \/ CallFlowStep
    \/ \E t \in Tasks : RecvWarmup(t)
    \/ \E t \in Tasks : RecvLoginPost(t)
    \/ \E t \in Tasks : RecvResponse(t)
    \/ GetAllResume

SpecSetup == Init /\ [][NextSetup]_vars

\* ------------------------------------------------------- reading the log

IsRequest(e) == e[1] = "request"
IsRetrying(e) == e[1] = "request" /\ e[3] = "retry_on_401"
IsReissue(e) == e[1] = "request" /\ e[3] = "no_retry"
IsResponse(e) == e[1] = "response"

\* The requests a log can hold, and those re-issued after a login.
Requests ==
    {<<"request", v, f, m>> : v \in Versions, f \in {"retry_on_401", "no_retry"},
                              m \in {"return_on_404", "raise_on_404"}}
Reissues == {e \in Requests : IsReissue(e)}

\* How many events of a log are in the set events.
Count(log, events) == Cardinality({i \in 1..Len(log) : log[i] \in events})
Occurs(log, e) == \E i \in 1..Len(log) : log[i] = e

\* The places of a log where a _request_json call with retry_on_401 enabled
\* starts and its first response is a 401.
Starts401(log) ==
    {i \in 1..(Len(log) - 1) : IsRetrying(log[i]) /\ log[i + 1] = <<"response", "401">>}

\* The part of the log that belongs to the _request_json call starting at i: up
\* to the next call with retry_on_401 enabled, or to the end.
CallEnd(log, i) ==
    IF \E j \in (i + 1)..Len(log) : IsRetrying(log[j])
    THEN (CHOOSE j \in (i + 1)..Len(log) :
            IsRetrying(log[j]) /\ \A k \in (i + 1)..(j - 1) : ~IsRetrying(log[k])) - 1
    ELSE Len(log)
CallLog(log, i) == SubSeq(log, i, CallEnd(log, i))

\* Whether the _request_json call starting at i of task tk's log has ended.
CallEnded(tk, i) == CallEnd(tk.log, i) < Len(tk.log) \/ tk.pc = "done"

Http401 == RuntimeError(<<"HTTP", "401">>)

\* ------------------------------------------------------------------ claims

\* C1 as claimed: every ended _request_json call with retry_on_401 enabled whose
\* first response was a 401 performed exactly one login and re-issued the
\* request exactly once.
C1_OneLoginOneReissue ==
    \A t \in Tasks : \A i \in Starts401(tasks[t].log) :
        CallEnded(tasks[t], i) =>
            LET part == CallLog(tasks[t].log, i)
            IN  Count(part, {<<"login">>}) = 1 /\ Count(part, Reissues) = 1

\* C1, amended: a _request_json call with retry_on_401 enabled whose first
\* response is a 401 performs exactly one login; when that login returns the
\* request is re-issued exactly once, for the same path and with retry_on_401
\* disabled, and when that login raises nothing is re-issued; when the
\* re-issued request is answered 401 too, the call fails with RuntimeError
\* "HTTP 401" and neither logs in nor sends anything after it.
C1_SingleRetry ==
    \A t \in Tasks : \A i \in Starts401(tasks[t].log) :
        LET tk == tasks[t]
            part == CallLog(tk.log, i)
            logins == Count(part, {<<"login">>})
            reissues == Count(part, Reissues)
        IN  /\ logins <= 1 /\ reissues <= 1
            /\ Count(part, Requests) = 1 + reissues
            /\ CallEnded(tk, i) =>
                  /\ logins = 1
                  /\ Occurs(part, <<"login_returned">>) => reissues = 1
                  /\ Occurs(part, <<"login_raised">>) => reissues = 0
            /\ \A j \in 1..Len(part) : IsReissue(part[j]) =>
                  /\ part[j][2] = part[1][2]
                  /\ part[j - 1] = <<"login_returned">>
            /\ (reissues = 1 /\ part[Len(part)] = <<"response", "401">>) =>
                  /\ CallEnd(tk.log, i) = Len(tk.log)
                  /\ tk.pc = "done"
                  /\ tk.outcome = Raise(Http401)

\* C1's case: a call ended by a second 401, after one login and one re-issued
\* request.
C1_Witness ==
    \E i \in Starts401(tasks[Main].log) :
        /\ tasks[Main].pc = "done"
        /\ tasks[Main].outcome = Raise(Http401)
        /\ Count(CallLog(tasks[Main].log, i), Reissues) = 1
        /\ tasks[Main].log[Len(tasks[Main].log)] = <<"response", "401">>

\* C2 as claimed: at most one login() of the client is between its start and
\* its completion at any time.
C2_AtMostOneLoginInFlight ==
    Cardinality({t \in Tasks : tasks[t].pc \in {"warm_wait", "post_wait"}}) <= 1

\* The events of a getter's log that are an error other than NotFound raised
\* into _request_drive_json: a login that raised, a 500, a 401 answering a
\* request re-issued without retry.
OtherError(log, i) ==
    \/ log[i] = <<"login_raised">>
    \/ log[i] = <<"response", "500">>
    \/ log[i] = <<"response", "401">> /\ IsReissue(log[i - 1])

\* C3 as claimed: in a getter, a 404 of a version moves on to the next version
\* and, once a later version succeeded, no NotFound reaches the caller; an error
\* other than NotFound ends the call, with no request after it, as the error the
\* caller gets.
C3_OnlyNotFoundTriesNext ==
    \A t \in Tasks : tasks[t].op = "drive" =>
        LET tk == tasks[t]
        IN  /\ \A i \in 1..Len(tk.log) : OtherError(tk.log, i) =>
                  /\ \A j \in (i + 1)..Len(tk.log) : ~IsRequest(tk.log[j])
                  /\ tk.pc = "done" /\ tk.outcome.kind = "raise"
            /\ (tk.pc = "done" /\ tk.log[Len(tk.log)] \in
                    {<<"response", "200">>, <<"response", "404">>}
                /\ IsReissue(tk.log[Len(tk.log) - 1]))
                  => tk.outcome.kind = "return"

\* C4 as claimed: once a getter call found v2 missing and v1 working for a
\* suffix, every later call for that suffix sends its first request to v1.
C4_LaterCallsStartWithV1 ==
    \A t \in Tasks :
        (tasks[t].op = "drive" /\ tasks[t].pc = "req_wait" /\ Len(tasks[t].log) = 1
         /\ tasks[t].suffix \in learned)
            => tasks[t].log[1][2] = "v1"

\* Whether a finished getter call got a 404 from every version of its list, one
\* request each.
AllVersionsMissing(tk) ==
    /\ tk.op = "drive" /\ tk.pc = "done"
    /\ Len(tk.log) = 2 * Len(tk.versions)
    /\ \A k \in 1..Len(tk.versions) :
          /\ IsRetrying(tk.log[2 * k - 1]) /\ tk.log[2 * k - 1][2] = tk.versions[k]
          /\ tk.log[2 * k] = <<"response", "404">>

\* C5: when every version of the preference list answers a getter call with
\* 404, the call raises the NotFound error of the last version it tried.
C5_ExhaustedRaisesLastNotFound ==
    \A t \in Tasks : AllVersionsMissing(tasks[t]) =>
        tasks[t].outcome =
            Raise(RuntimeError(NotFoundMsg(tasks[t].versions[Len(tasks[t].versions)],
                                           tasks[t].suffix)))

\* C5's case: a getter call that ended after a 404 from v2 and from v1.
C5_Witness ==
    /\ AllVersionsMissing(tasks[Main])
    /\ Len(tasks[Main].versions) = 2
    /\ tasks[Main].outcome.kind = "raise"

\* Whether task t is a fetch dispatched by the get_all call the caller's
\* coroutine runs (or ran last).
OfThisPoll(t) ==
    t \in Resources /\ tasks[Main].op = "get_all" /\ tasks[t].call = tasks[Main].call

\* C6 as claimed: a getter that got a 404 from v2 and from v1 returns the empty
\* object, and a get_all that gathered it is not failed by it.
C6_AbsentEndpointGivesEmptyObject ==
    \A t \in Tasks : AllVersionsMissing(tasks[t]) =>
        /\ tasks[t].outcome = Return(EmptyObject)
        /\ OfThisPoll(t) => gather.state # "failed"

\* C6, amended: a getter that got a 404 from v2 and from v1 raises the NotFound
\* error of the last version instead of returning the empty object, and the
\* get_all that gathered it fails and returns no snapshot.
C6_AbsentEndpointFailsPoll ==
    \A t \in Tasks : AllVersionsMissing(tasks[t]) =>
        /\ tasks[t].outcome.kind = "raise"
        /\ tasks[t].outcome.err.type = "RuntimeError"
        /\ Contains(tasks[t].outcome.err.msg, HTTP404)
        /\ OfThisPoll(t) =>
              /\ snapshot = None
              /\ \/ tasks[Main].pc = "gather_wait" /\ gather.state = "failed"
                 \/ tasks[Main].pc = "done" /\ tasks[Main].outcome.kind = "raise"

\* C6's case: a get_all that ended after its shares fetch got a 404 from v2 and
\* from v1.
C6_Witness ==
    /\ OfThisPoll("shares")
    /\ AllVersionsMissing(tasks["shares"])
    /\ Len(tasks["shares"].versions) = 2
    /\ tasks[Main].pc = "done"

\* C7: get_all returns a snapshot only when its six fetches all returned, the
\* snapshot then has exactly the six keys and holds under each key what the
\* fetch of that key returned; when a fetch raised, get_all raises and there is
\* no snapshot.
C7_SnapshotAllOrNothing ==
    /\ snapshot # None =>
          /\ tasks[Main].op = "get_all" /\ tasks[Main].pc = "done"
          /\ tasks[Main].outcome = Return(SnapshotValue)
          /\ DOMAIN Val(snapshot) = Resources
          /\ \A r \in Resources :
                /\ OfThisPoll(r)
                /\ tasks[r].pc = "done" /\ tasks[r].outcome.kind = "return"
                /\ Val(snapshot)[r] = tasks[r].outcome.val
    /\ (tasks[Main].op = "get_all" /\ tasks[Main].pc = "done"
        /\ tasks[Main].outcome.kind = "return") => snapshot # None
    /\ \A r \in Resources :
          (OfThisPoll(r) /\ tasks[r].pc = "done" /\ tasks[r].outcome.kind = "raise") =>
              /\ snapshot = None
              /\ \/ tasks[Main].pc = "gather_wait"
                 \/ tasks[Main].pc = "done" /\ tasks[Main].outcome.kind = "raise"

\* C7's case: a snapshot whose six fields differ from one another (each is the
\* JSON body of its own endpoint), the one of shares read from v1.
C7_Witness ==
    /\ snapshot # None
    /\ \A r \in Resources : Val(snapshot)[r][1] = "json" /\ Val(snapshot)[r][3] = Suffix(r)
    /\ Val(snapshot)["shares"] = Body("v1", Suffix("shares"))

\* C8: a get_all call runs ensure_authenticated once, as its first step, and
\* its fetches are dispatched only when that has completed (a login it started
\* has returned); when the login raises, get_all raises and none of its fetches
\* is dispatched.
C8_EnsureOnceBeforeFetches ==
    tasks[Main].op = "get_all" =>
        LET log == tasks[Main].log
        IN  /\ log[1] = <<"ensure_authenticated">>
            /\ Count(log, {<<"ensure_authenticated">>}) = 1
            /\ Count(log, {<<"login">>}) <= 1
            /\ (\E r \in Resources : OfThisPoll(r)) =>
                  /\ tasks[Main].pc \in {"gather_wait", "done"}
                  /\ ~Occurs(log, <<"login_raised">>)
                  /\ Occurs(log, <<"login">>) => log[Len(log)] = <<"login_returned">>
                  /\ \A r \in Resources : OfThisPoll(r)
            /\ tasks[Main].pc \in {"warm_wait", "post_wait"} =>
                  \A r \in Resources : ~OfThisPoll(r)
            /\ Occurs(log, <<"login_raised">>) =>
                  /\ tasks[Main].pc = "done" /\ tasks[Main].outcome.kind = "raise"
                  /\ \A r \in Resources : ~OfThisPoll(r)

\* C8's case: a get_all whose ensure_authenticated logged in, and whose fetches
\* were dispatched after that login returned.
C8_Witness ==
    /\ tasks[Main].op = "get_all"
    /\ Occurs(tasks[Main].log, <<"login_returned">>)
    /\ \A r \in Resources : OfThisPoll(r) /\ tasks[r].pc = "done"

\* C9 as claimed: ensure_authenticated logs in exactly when the expiry is known
\* and no more than 300000 ms after the clock it read; read off the state its
\* first step leaves (done without a login, or waiting for the warm-up).
C9_LoginIffWithinMargin ==
    (tasks[Main].op = "ensure" /\ Len(tasks[Main].log) <= 2
     /\ tasks[Main].pc \in {"done", "warm_wait"}) =>
        (Occurs(tasks[Main].log, <<"login">>)
            <=> (token_expire_ms # None
                 /\ Val(token_expire_ms) - tasks[Main].now <= RefreshMargin * 1000))

\* C10: a known CSRF token and a known expiry are never forgotten; a step in
\* which no response with a usable CSRF token (expiry) was handled leaves the
\* token (expiry) as it was, and a token that changed is a non-empty one.
C10_AuthNeverForgotten ==
    [][/\ csrf # None => csrf' # None
       /\ token_expire_ms # None => token_expire_ms' # None
       /\ csrf' # csrf =>
             /\ Truthy(csrf')
             /\ \E t \in Tasks : tasks'[t] # tasks[t] /\ tasks'[t].seen_csrf
                                 /\ Len(tasks'[t].log) > Len(tasks[t].log)
       /\ token_expire_ms' # token_expire_ms =>
             \E t \in Tasks : tasks'[t] # tasks[t] /\ tasks'[t].seen_expire
                              /\ Len(tasks'[t].log) > Len(tasks[t].log)]_vars

\* C10's case: a request answered without any authentication header while the
\* token and the expiry are known from an earlier response.
C10_Witness ==
    /\ csrf # None /\ token_expire_ms # None
    /\ tasks[Main].op = "request" /\ tasks[Main].pc = "done"
    /\ tasks[Main].log[Len(tasks[Main].log)][1] = "response"
    /\ ~tasks[Main].seen_csrf /\ ~tasks[Main].seen_expire

\* The message of the error the spec has login() fail with, for the status (as
\* it is logged) and the body text of the login response: RateLimited,
\* AuthenticationFailed or RequestFailed, each with the text.
LoginFailure(status, text) ==
    IF status = "429" THEN <<"RATE_LIMIT:", "HTTP", "429", "-">> \o text
    ELSE IF status \in {"401", "403"} THEN <<"AUTH_FAILED:", "HTTP", status, "-">> \o text
    ELSE <<"HTTP", status, "-">> \o text

\* C11: a login ends with the response to its POST: it returns when the status
\* is below 400 and raises otherwise; the error of a 429 is RateLimited, of a
\* 401 or 403 AuthenticationFailed, of any other status RequestFailed, and its
\* message ends with the body text of the response.
C11_LoginClassifiesStatus ==
    \A t \in Tasks :
        LET tk == tasks[t]
            log == tk.log
            n == Len(log)
        IN  /\ \A i \in 1..n : log[i][1] = "login_response" =>
                  /\ i < n
                  /\ log[i + 1] = IF log[i][2] = "200" THEN <<"login_returned">>
                                  ELSE <<"login_raised">>
            /\ (n >= 2 /\ tk.op \in {"login", "ensure", "request", "get_all"}
                /\ log[n] = <<"login_raised">>) =>
                  /\ tk.pc = "done"
                  /\ tk.outcome = Raise(RuntimeError(LoginFailure(log[n - 1][2], tk.text)))
            /\ (n >= 2 /\ tk.op \in {"login", "ensure"} /\ log[n] = <<"login_returned">>) =>
                  /\ tk.pc = "done"
                  /\ tk.outcome = Return(NoneValue)

\* C11's case: a login whose POST was answered 429 with the body "slow down".
C11_Witness ==
    /\ tasks[Main].op = "login" /\ tasks[Main].pc = "done"
    /\ tasks[Main].text = <<"slow", "down">>
    /\ tasks[Main].outcome =
          Raise(RuntimeError(<<"RATE_LIMIT:", "HTTP", "429", "-", "slow", "down">>))

\* C12 as claimed: a _request_json call whose last response is a 404 returns
\* the empty object when it was called with return_on_404 true, and raises
\* NotFound when it was called with return_on_404 false.
C12_NotFoundByFlag ==
    \A t \in Tasks :
        LET tk == tasks[t]
            n == Len(tk.log)
        IN  (tk.op = "request" /\ tk.pc = "done" /\ tk.log[n] = <<"response", "404">>) =>
                IF tk.log[1][4] = "return_on_404"
                THEN tk.outcome = Return(EmptyObject)
                ELSE tk.outcome = Raise(RuntimeError(NotFoundMsg(tk.version, tk.suffix)))

\* C13 as claimed: a _request_json call ended by a response with a status of 400
\* or more, other than a 404 and a 401 that is retried, raises RequestFailed
\* with a message that holds the status and the body text read.
C13_ErrorCarriesStatusAndText ==
    \A t \in Tasks :
        LET tk == tasks[t]
            n == Len(tk.log)
        IN  (tk.op = "request" /\ tk.pc = "done" /\ IsResponse(tk.log[n])
             /\ tk.log[n][2] \in {"401", "500"}) =>
                /\ tk.outcome.kind = "raise"
                /\ tk.outcome.err.type = "RuntimeError"
                /\ Contains(tk.outcome.err.msg, <<"HTTP", tk.log[n][2]>>)
                /\ Contains(tk.outcome.err.msg, tk.text)

\* C18 as claimed: the request re-issued after a 401 and a login is the first
\* one with retry_on_401 disabled and nothing else changed (same path, same
\* return_on_404); so in a getter a 404 answering the re-issued request moves
\* on to the next version, if there is one.
C18_ReissueKeepsSettings ==
    \A t \in Tasks : \A i \in Starts401(tasks[t].log) :
        LET tk == tasks[t]
            part == CallLog(tk.log, i)
        IN  \A j \in 1..Len(part) : IsReissue(part[j]) =>
                /\ part[j][2] = part[1][2]
                /\ part[j][4] = part[1][4]
                /\ (tk.op = "drive" /\ j < Len(part) /\ part[j + 1] = <<"response", "404">>
                    /\ tk.vi < Len(tk.versions)) => tk.pc # "done"

\* C20: a resource request and a login POST carry the CSRF token the client
\* holds when they are sent, and no token when it holds none: in every step in
\* which a task sends one, the token sent is the token held after the step.
C20_RequestsCarryCurrentToken ==
    [][\A t \in Tasks :
          (tasks'[t].log # tasks[t].log /\ tasks'[t].pc \in {"req_wait", "post_wait"})
              => tasks'[t].sent_csrf = csrf']_vars

\* C20's case: a fetch of a get_all that made no proactive login sent its
\* first request with the token of the start (none, or "A"), and sends the
\* re-issued request with the token "B" its login brought.
C20_Witness ==
    /\ tasks[Main].op = "get_all" /\ ~Occurs(tasks[Main].log, <<"login">>)
    /\ \E r \in Resources :
          /\ OfThisPoll(r) /\ tasks[r].pc = "req_wait"
          /\ IsReissue(tasks[r].log[Len(tasks[r].log)])
          /\ tasks[r].sent_csrf = Some("B")

\* C14 as claimed: when get_all raises a RuntimeError, the coordinator reports
\* invalid credentials exactly for AuthenticationFailed (a login answered 401
\* or 403) and for an unresolved 401 of a request, and a transient failure for
\* RateLimited and every other RequestFailed, whatever the body text.
C14_OutcomeByErrorKind ==
    (tasks[Main].op = "get_all" /\ tasks[Main].pc = "done"
     /\ tasks[Main].outcome.kind = "raise"
     /\ tasks[Main].outcome.err.type = "RuntimeError") =>
        LET msg == tasks[Main].outcome.err.msg
        IN  IF msg[1] = "AUTH_FAILED:" \/ msg = <<"HTTP", "401">>
            THEN reported = "ConfigEntryAuthFailed"
            ELSE reported = "UpdateFailed"

\* C15: close() returns None and raises nothing; on a client without a session
\* or with a closed one it changes nothing, and on a client with an open
\* session it closes that session, once, and changes nothing else.
C15_CloseIdempotent ==
    [][(tasks'[Main].op = "close" /\ tasks'[Main] # tasks[Main]) =>
          /\ tasks'[Main].pc = "done"
          /\ tasks'[Main].outcome = Return(NoneValue)
          /\ UNCHANGED <<csrf, token_expire_ms, drive_api_versions, snapshot, host>>
          /\ IF session = "open"
             THEN session' = "closed" /\ open_sessions' = open_sessions - 1
             ELSE UNCHANGED <<session, open_sessions>>]_vars

\* C15's case: a close() of a client whose session was closed by an earlier
\* close().
C15_Witness ==
    /\ tasks[Main].op = "close" /\ tasks[Main].pc = "done"
    /\ tasks[Main].log = <<<<"close", "noop">>>>
    /\ session = "closed" /\ open_sessions = 0

\* C16: the client never has more than one open session, and it holds the open
\* one; a session is created only when the client has none or a closed one, and
\* every request (of a fetch, of a login) is sent with the client holding an
\* open session, the one it held before if that was open.
C16_OneSessionReused ==
    /\ [](open_sessions <= 1 /\ (session = "open" <=> open_sessions = 1))
    /\ [][/\ session' # session =>
                /\ session \in {"none", "closed"} /\ session' = "open"
                /\ open_sessions' = open_sessions + 1
          /\ session = "open" => open_sessions' = open_sessions
          /\ \A t \in Tasks :
                (tasks'[t].log # tasks[t].log
                 /\ tasks'[t].pc \in {"req_wait", "warm_wait", "post_wait"})
                    => session' = "open"]_vars

\* C16's case: the six fetches of a get_all are done, one of them after a
\* login of its own, and one session is open.
C16_Witness ==
    /\ session = "open" /\ open_sessions = 1
    /\ \A r \in Resources : OfThisPoll(r) /\ tasks[r].pc = "done"
    /\ \E r \in Resources : Occurs(tasks[r].log, <<"login_returned">>)

IsPrefix(p, h) == Len(p) <= Len(h) /\ SubSeq(h, 1, Len(p)) = p

\* Whether a host argument starts with the scheme http:// or https://.
HasScheme(h) ==
    \/ IsPrefix(<<"http", ":", "/", "/">>, h)
    \/ IsPrefix(<<"http", "s", ":", "/", "/">>, h)

\* C17 as claimed: the constructor turns a host argument without a scheme into
\* https:// followed by the argument, keeps one that has the scheme http:// or
\* https://, and removes the slashes at the end in both cases.
C17_HostNormalized ==
    host.base # None =>
        Val(host.base) =
            IF HasScheme(host.input) THEN RStripSlash(host.input)
            ELSE <<"http", "s", ":", "/", "/">> \o RStripSlash(host.input)

\* C19: a fetch sends at most two requests for each version (the request and
\* one re-issue) and re-issues no more often than it was answered 401; and a
\* get_all that was called ends, with every exchange completing in the end,
\* against an appliance that answers every resource request 401 and accepts
\* every login, or refuses every login.
C19_GetAllCompletes ==
    /\ [](\A t \in Tasks :
            /\ Count(tasks[t].log, Requests) <= 2 * Len(tasks[t].versions)
            /\ Count(tasks[t].log, Reissues) <= Cardinality(Starts401(tasks[t].log)))
    /\ (tasks[Main].op = "get_all" /\ tasks[Main].pc # "done")
          ~> (tasks[Main].op = "get_all" /\ tasks[Main].pc = "done")

\* C19's case: a get_all has failed and its six fetches have ended, each after
\* a 401, a login and a 401 for the re-issued request.
C19_Witness ==
    /\ tasks[Main].op = "get_all" /\ tasks[Main].pc = "done"
    /\ tasks[Main].outcome = Raise(Http401)
    /\ \A r \in Resources :
          /\ OfThisPoll(r) /\ tasks[r].pc = "done"
          /\ Count(tasks[r].log, Requests) = 2
          /\ tasks[r].outcome = Raise(Http401)

\* Whether a task has an exchange in flight: a resource request, the warm-up
\* GET or the login POST.
InFlight(tk) == tk.pc \in {"req_wait", "warm_wait", "post_wait"}

\* The first event of the step that took a task from the frame old to the
\* frame new: how the exchange it had in flight ended.
FirstNew(old, new) == new.log[Len(old.log) + 1]

\* The events that are an HTTP response received.
IsResponseEvent(e) ==
    e[1] \in {"response", "login_response"} \/ (e[1] = "warmup" /\ e[2] = "answered")

\* C21: every step in which a task receives an HTTP response (of a resource
\* request, whatever its status; of the warm-up GET; of the login POST, failed
\* or not) leaves the CSRF token and the expiry as the headers of that response
\* give them (the usable header value, else the value held before; for the
\* warm-up the csrfToken of the body may replace the token), and the step goes
\* on from there; and no other step changes the token or the expiry.
C21_EveryResponseUpdatesAuth ==
    [][/\ \A t \in Tasks :
             (InFlight(tasks[t]) /\ tasks'[t] # tasks[t]) =>
                 LET e == FirstNew(tasks[t], tasks'[t])
                     tk == tasks'[t]
                 IN  IF IsResponseEvent(e)
                     THEN /\ \/ csrf' = IF tk.hdr_csrf # None THEN tk.hdr_csrf ELSE csrf
                             \/ e[1] = "warmup" /\ csrf' \in BodyCsrfTokens \ {None}
                          /\ token_expire_ms' =
                                IF tk.hdr_expire # None THEN tk.hdr_expire ELSE token_expire_ms
                     ELSE UNCHANGED <<csrf, token_expire_ms>>
       /\ (csrf' # csrf \/ token_expire_ms' # token_expire_ms) =>
             \E t \in Tasks :
                 /\ InFlight(tasks[t]) /\ tasks'[t] # tasks[t]
                 /\ IsResponseEvent(FirstNew(tasks[t], tasks'[t]))]_vars

\* C21's case: a request answered 500 with a CSRF token and an expiry in its
\* headers has raised, and the client holds that token and that expiry.
C21_Witness ==
    /\ tasks[Main].op = "request" /\ tasks[Main].pc = "done"
    /\ tasks[Main].log[Len(tasks[Main].log)] = <<"response", "500">>
    /\ tasks[Main].outcome.kind = "raise"
    /\ tasks[Main].hdr_csrf = Some("A") /\ csrf = Some("A")
    /\ tasks[Main].hdr_expire = Some(300001) /\ token_expire_ms = Some(300001)

\* C22: a login attempts the warm-up GET first and, however that ends (a
\* transport failure, an error status, a body without a token), sends the login
\* POST next; a login raises only as the step that handles a POST response of
\* status 400 or more, and returns only as the one that handles a POST response
\* below 400; the outcome of a login the caller awaited is given by the status
\* and the text of the POST response.
C22_WarmupNeverFailsLogin ==
    \A t \in Tasks :
        LET tk == tasks[t]
            log == tk.log
            n == Len(log)
        IN  /\ \A i \in 1..n :
                  /\ log[i] = <<"login">> =>
                        IF i = n THEN tk.pc = "warm_wait" ELSE log[i + 1][1] = "warmup"
                  /\ log[i][1] = "warmup" => i < n /\ log[i + 1] = <<"login_post">>
                  /\ log[i] = <<"login_post">> =>
                        IF i = n THEN tk.pc = "post_wait" ELSE log[i + 1][1] = "login_response"
                  /\ log[i] = <<"login_raised">> =>
                        log[i - 1][1] = "login_response" /\ log[i - 1][2] # "200"
                  /\ log[i] = <<"login_returned">> => log[i - 1] = <<"login_response", "200">>
            /\ (tk.op = "login" /\ tk.pc = "done") =>
                  /\ log[n - 1][1] = "login_response"
                  /\ tk.outcome = IF log[n - 1][2] = "200" THEN Return(NoneValue)
                                   ELSE Raise(RuntimeError(LoginFailure(log[n - 1][2], tk.text)))

\* C22's case: a login returned although its warm-up GET failed.
C22_Witness ==
    /\ tasks[Main].op = "login" /\ tasks[Main].pc = "done"
    /\ tasks[Main].outcome = Return(NoneValue)
    /\ Occurs(tasks[Main].log, <<"warmup", "failed">>)

\* C23: a _request_json call ended by a response with a status below 400
\* returns the decoded body when the response's content type holds
\* application/json and the empty object when it does not, and raises in
\* neither case; a getter returns what that call returned.
C23_SuccessByContentType ==
    \A t \in Tasks :
        LET tk == tasks[t]
            n == Len(tk.log)
        IN  (tk.op \in {"request", "drive"} /\ tk.pc = "done"
             /\ tk.log[n] \in {<<"response", "200">>, <<"response", "304">>}) =>
                tk.outcome = IF tk.content_json THEN Return(Body(tk.version, tk.suffix))
                             ELSE Return(EmptyObject)

\* C23's case: a request answered 200 without a JSON content type returned the
\* empty object.
C23_Witness ==
    /\ tasks[Main].op = "request" /\ tasks[Main].pc = "done"
    /\ tasks[Main].log[Len(tasks[Main].log)] = <<"response", "200">>
    /\ ~tasks[Main].content_json
    /\ tasks[Main].outcome = Return(EmptyObject)

\* C24 as claimed: a _request_drive_json call (a getter) performs at most one
\* login and sends at most three resource requests, whatever the appliance
\* answers.
C24_OneLoginPerGetter ==
    \A t \in Tasks : tasks[t].op = "drive" =>
        /\ Count(tasks[t].log, {<<"login">>}) <= 1
        /\ Count(tasks[t].log, Requests) <= 3

\* C25: whatever the fetches of a get_all do and in whatever order their
\* responses arrive, the version preference list holds v2 and v1 once each, and
\* no call ends with the ValueError of list.remove for a version that is not
\* in the list.
C25_VersionsStayPermutation ==
    /\ Len(drive_api_versions) = 2
    /\ {drive_api_versions[i] : i \in 1..Len(drive_api_versions)} = Versions
    /\ \A t \in Tasks :
          tasks[t].outcome.kind = "raise" => tasks[t].outcome.err.type # "ValueError"

\* C25's case: the six fetches of a get_all are done; one of them found v2
\* missing and moved v1 to the front while the others were in flight, and one
\* that had started from [v2, v1] and was answered by v2 moved v2 back.
C25_Witness ==
    /\ \A r \in Resources : OfThisPoll(r) /\ tasks[r].pc = "done"
    /\ \E r \in Resources : FoundV1(tasks[r])
    /\ drive_api_versions = <<"v2", "v1">>

\* C26 as claimed: when async_setup_entry has ended by raising, the session of
\* the client it created is not open and nothing is stored for the entry; when
\* a config-flow step has ended, the session of the client it created is not
\* open, whether the login returned or raised.
C26_ClientClosedOnFailure ==
    LET tk == tasks[Main]
    IN  /\ (tk.caller = "setup" /\ tk.ended \notin {"none", "True"}) =>
              session # "open" /\ entry_data = "none"
        /\ (tk.caller \in {"flow_user", "flow_reauth"} /\ tk.ended # "none") =>
              session # "open"

====
